---- MODULE Spec2Model ----
(***************************************************************************)
(* booklid-rust: one opened lid-angle device.                              *)
(*                                                                         *)
(* A backend (HidAngle, AlsAngle, MockAngle) owns a "latest" cell, a       *)
(* broadcast channel and a background producer task; init() wraps it in    *)
(* gating::Gated.  Callers use latest / subscribe / set_smoothing /        *)
(* confidence / info through the gate, subscriber streams drain the        *)
(* channel.                                                                *)
(*                                                                         *)
(* f32 values are fixed point with three decimals (One = 1.000), so        *)
(* 0.70 is 700 and an angle of 95 degrees is 95000.  An Option<T> is a     *)
(* sequence of length 0 (None) or 1 (Some).  Every step below contains     *)
(* exactly one access to shared memory (one mutex-protected read or write, *)
(* one atomic load or store, one channel operation).                       *)
(***************************************************************************)
EXTENDS Integers, Sequences, FiniteSets, TLC

\* ---------------------------------------------------------------- bounds
MaxTicks == 2      \* producer ticks explored
MaxCalls == 2      \* gated latest() calls explored
LagTicks == 258    \* producer ticks explored by SpecLag
ScriptPolls == 8   \* gated latest() calls explored by SpecScript
MaxOps == 1        \* confidence / info / set_smoothing calls explored
MaxPersist == 3    \* persist::load / store / clear calls explored
LockTicks == 2     \* producer ticks explored by SpecLocks
LockOps == 2       \* caller operations explored by SpecLocks
WindowTicks == 66  \* producer ticks explored by SpecWindow
WindowFree == 3    \* ticks of SpecWindow whose raw signal is free
JitterTicks == 160 \* producer ticks explored by SpecJitter

\* ------------------------------------------------------------- constants
One == 10 * 10 * 10 \* fixed-point 1.0
Capacity == 256    \* broadcast::channel::<AngleSample>(256)
MinConf == 700     \* Gated::wrap(dev, 0.70, 0.65): go-live threshold
DropConf == 650    \* Gated::wrap(dev, 0.70, 0.65): drop threshold
CAP == 64          \* rolling-variance window of the ALS backend
ConfInit == 200    \* Arc::new(Mutex::new(0.2))
BaselineInit == 500 \* let mut baseline = 0.5f32
KAls == 20         \* 1.0 / (1.0 + 20.0 * var)
AlphaInit == 250   \* Arc::new(Mutex::new(0.25)) in every backend open

Backends == {"HingeFeature", "ALS", "Mock"}
Callers == {"c1", "c2"}
Subs == {1, 2}                            \* subscriber streams
Locks == {"alpha", "latest", "conf"}      \* the Mutex of each cell

\* inputs
AlphaVals == {0, 1000, 1500}              \* set_smoothing arguments
SmoothingInits == {250, 1000}             \* cfg.smoothing_init
MockAngles == {75000, 115000}             \* 95 + 20 sin t + 0.5 sin 3.7t
HidAngles == {0, 90000}                   \* u16 feature report as f32
LagAngle == 95 * One                      \* the Mock angle in SpecLag
AlsRaws == {450, 550}                     \* placeholder ALS signal

None == << >>
Some(x) == <<x>>

VARIABLES
    features,   \* cargo features the crate was built with
    guard,      \* init: let guard = desktop_guard()
    entry,      \* the public function called, and its argument
    cfg,        \* init: the InitConfig argument
    avail,      \* raw sources: the fallible opens that return Ok
    ipc,        \* init: position
    at,         \* init: the candidate block control is at
    tried,      \* init: let mut tried: Vec<Source>
    opened,     \* history: the backend opens called, in order
    spawned,    \* history: the opens that reached their tokio::spawn
    result,     \* init: the value returned
    source,     \* Source tag of the backend that was opened
    hidPresent, \* raw source: a hinge HID device answers
    stateDir,   \* persist: state_path() is Some (the platform has a state dir)
    file,       \* persist: Option<text of state.json>
    plog,       \* history: the persist calls made, with what each returned
    diagnostics, \* env: BOOKLID_DIAGNOSTICS == "1"
    stderrOk,   \* whether a write to the process's stderr succeeds
    holder,     \* per Mutex: the thread holding its guard, or "none"
    rawNow,     \* producer local: Option<raw signal of this tick>
    latest,     \* Arc<Mutex<Option<AngleSample>>>
    alpha,      \* Arc<Mutex<f32>>
    conf,       \* Arc<Mutex<f32>> (AlsAngle only; others return 1.0)
    chan,       \* samples accepted by the broadcast channel, oldest first;
                \* the ring retains the last Capacity of them
    senders,    \* live broadcast::Sender handles: "dev" (tx), "task" (tx_c)
    ppc,        \* producer task position
    angle_deg,  \* producer local: Option<the value this tick feeds the filter>
    smoothed,   \* producer local: Option<f32>
    baseline,   \* producer local (ALS)
    buf,        \* producer local (ALS): VecDeque<f32>
    sample,     \* producer local: the AngleSample being published
    clock,      \* Instant::now(), counted in producer ticks
    live,       \* Gated.live: AtomicBool
    cpc,        \* per caller: position inside a gated call
    creg,       \* per caller: locals c (confidence read) and l (live loaded)
    ret,        \* per caller: what its last call returned
    calls,      \* number of gated latest() calls started
    ops,        \* number of other caller operations
    streams,    \* subscriber streams
    published   \* history: every sample handed to tx.send, in order

vars == <<features, guard, entry, cfg, avail, ipc, at, tried, opened, spawned, result,
          source, hidPresent, stateDir, file, plog, diagnostics, stderrOk, holder, rawNow,
          latest, alpha, conf, chan, senders, ppc,
          angle_deg, smoothed, baseline, buf, sample, clock, live, cpc, creg, ret,
          calls, ops, streams, published>>

devVars == <<latest, alpha, conf, chan, senders, published>>
taskVars == <<ppc, angle_deg, smoothed, baseline, buf, sample, clock>>
gateVars == <<live, cpc, creg, ret, calls, ops>>
settledVars == <<features, guard, entry, cfg, avail, ipc, at, tried, opened,
                spawned, result, source, hidPresent, stateDir, file, plog,
                diagnostics, stderrOk>>
envVars == <<settledVars, holder, rawNow>>

\* --------------------------------------------------------------- helpers
Clamp(x, lo, hi) == IF x < lo THEN lo ELSE IF x > hi THEN hi ELSE x

Last(s) == s[Len(s)]

RECURSIVE SumSeq(_)
SumSeq(s) == IF s = << >> THEN 0 ELSE s[1] + SumSeq(Tail(s))

RECURSIVE SumSqDev(_, _)
SumSqDev(s, m) ==
    IF s = << >> THEN 0 ELSE (s[1] - m) * (s[1] - m) + SumSqDev(Tail(s), m)

\* prev + a * (x - prev), or x when there is no running estimate yet
\* Faulty variant: the first value is smoothed from an estimate of zero.
EmaFromZero(prev, a, x) ==
    IF prev = None THEN (a * x) \div One ELSE prev[1] + (a * (x - prev[1])) \div One

\* match smoothed { None => x, Some(prev) => prev + a * (x - prev) }
Ema(prev, a, x) ==
    IF prev = None THEN x ELSE prev[1] + (a * (x - prev[1])) \div One

AngleSample(v, ts, src) == [angle_deg |-> v, timestamp |-> ts, source |-> src]

\* Faulty variant: a full window is not trimmed.
PushNoEvict(b, s) == Append(b, s)

\* if buf.len() == CAP { buf.pop_front(); } buf.push_back(s);
Push(b, s) == Append(IF Len(b) = CAP THEN Tail(b) ELSE b, s)

\* mean, population variance, 1 / (1 + k * var), clamped to [0, 1].
\* Deviations are in 1/One, so the variance is in 1/(One*One).
Variance(b) ==
    LET n == Len(b)
        mean == SumSeq(b) \div n
    IN SumSqDev(b, mean) \div n

Stability(b) == (One * One * One) \div (One * One + KAls * Variance(b))

\* ----------------------------------------------------------------- state
NoLocals == [c |-> 0, l |-> FALSE]

StreamFree == [st |-> "free", next |-> 0, got |-> << >>, lost |-> 0,
               from |-> 0]

\* ------------------------------------------------------------ init()
\* enum Source
Sources == {"HingeFeature", "HingeHid", "HingeIOKit", "ALS", "WinHinge",
            "WinTilt", "WinALS", "LinuxTilt", "LinuxALS", "Mock"}

\* The cfg(feature) switches of lib.rs; "win_sensors" stands for
\* all(target_os = "windows", feature = "win_sensors") and "linux_iio" for
\* all(target_os = "linux", any(linux_iio_proxy, linux_iio_sys)).
Features == {"mac_hid_feature", "mac_als", "mock", "win_sensors", "linux_iio"}

\* One target_os per build.
Builds == {f \in SUBSET Features : ~({"win_sensors", "linux_iio"} \subseteq f)}

\* The candidate blocks of init in textual order (laptop path).
Walk == <<"HingeFeature", "HingeHid", "ALS", "Mock", "WinHinge", "WinTilt",
          "WinALS", "LinuxTilt", "LinuxALS">>

\* The candidate blocks of init when desktop_guard() is true.
GuardWalk == <<"ALS">>

FeatureOf(tag) ==
    CASE tag \in {"HingeFeature", "HingeHid"} -> "mac_hid_feature"
      [] tag = "ALS" -> "mac_als"
      [] tag = "Mock" -> "mock"
      [] tag \in {"WinHinge", "WinTilt", "WinALS"} -> "win_sensors"
      [] tag \in {"LinuxTilt", "LinuxALS"} -> "linux_iio"

\* Opens that can return Err: the sensor lookups of backend_win and
\* backend_linux.  HidAngle::open_with, AlsAngle::open and MockAngle::open
\* spawn their task and return Ok unconditionally.
Fallible == {"WinHinge", "WinTilt", "WinALS", "LinuxTilt", "LinuxALS"}

HzVals == {0, 60 * One}                   \* cfg.hz

PosOf(tag) == CHOOSE i \in 1..Len(Walk) : Walk[i] = tag

\* Gated::wrap(dev, 0.70, 0.65), the same call in every block of init.
Wrapped(tag) == [min |-> MinConf, drop |-> DropConf]

\* Ok((dev, report)): the gate around dev and SetupReport { chosen, tried,
\* desktop_guard, used_mock, .. }
Report(tag, t, g) ==
    [kind |-> "Ok", chosen |-> Some(tag), tried |-> t, desktop_guard |-> g,
     used_mock |-> (tag = "Mock"), gate |-> Wrapped(tag)]

\* The public functions that reach init.
Entries == {"init", "open", "open_with", "open_blocking", "open_blocking_with"}

\* InitConfig::new(hz), OpenOptions::new(hz)
InitConfigNew(hz) ==
    [hz |-> hz, smoothing_init |-> AlphaInit, allow_mock |-> FALSE]

\* Faulty variant: the blocking variants open with the defaults.
EntryConfigBlockingDefaults(fn, o) ==
    IF fn \in {"open", "open_blocking", "open_blocking_with"}
    THEN InitConfigNew(o.hz)
    ELSE [hz |-> o.hz, smoothing_init |-> o.smoothing_init,
          allow_mock |-> o.allow_mock]

\* The InitConfig an entry point hands to init: open and open_blocking
\* build InitConfig::new(hz); open_with and open_blocking_with copy the
\* fields of their OpenOptions; init takes the InitConfig itself.
EntryConfig(fn, o) ==
    IF fn \in {"open", "open_blocking"}
    THEN InitConfigNew(o.hz)
    ELSE [hz |-> o.hz, smoothing_init |-> o.smoothing_init,
          allow_mock |-> o.allow_mock]

\* The arbitration that returned the device the specifications below start
\* from: a build with the one feature of src, no desktop guard.
Settled(src, a) ==
    /\ features = {FeatureOf(src)}
    /\ guard = FALSE
    /\ cfg = [hz |-> 60 * One, smoothing_init |-> a, allow_mock |-> (src = "Mock")]
    /\ entry = [fn |-> "init", opts |-> cfg]
    /\ avail = {}
    /\ ipc = "done"
    /\ at = PosOf(src)
    /\ tried = <<src>>
    /\ opened = <<src>>
    /\ spawned = <<src>>
    /\ result = Report(src, <<src>>, FALSE)
    /\ holder = [l \in Locks |-> "none"]
    /\ rawNow = None
    /\ diagnostics = FALSE
    /\ stderrOk = TRUE

\* No persist call has been made and no state.json exists.
NoRecord ==
    /\ stateDir = TRUE
    /\ file = None
    /\ plog = << >>

InitDevice ==
    /\ source \in Backends
    /\ hidPresent \in BOOLEAN
    /\ latest = None
    /\ alpha \in SmoothingInits
    /\ Settled(source, alpha)
    /\ conf = ConfInit
    /\ chan = << >>
    /\ senders = {"dev", "task"}
    /\ ppc = IF source = "HingeFeature" THEN "connect" ELSE "wait"
    /\ angle_deg = None
    /\ smoothed = None
    /\ baseline = BaselineInit
    /\ buf = << >>
    /\ sample = None
    /\ clock = 0
    /\ live = FALSE
    /\ cpc = [c \in Callers |-> "idle"]
    /\ creg = [c \in Callers |-> NoLocals]
    /\ ret = [c \in Callers |-> <<"unset">>]
    /\ calls = 0
    /\ ops = 0
    /\ streams = [i \in Subs |-> StreamFree]
    /\ published = << >>

Init == InitDevice /\ NoRecord

\* ------------------------------------------------------- producer task
\* Number of live receivers of the channel.
RxCount == Cardinality({i \in DOMAIN streams : streams[i].st \in {"open", "ended"}})

\* Faulty variant: alpha is used as stored.
ProduceUnclamped(raw) ==
    LET s == Ema(smoothed, alpha, raw)
    IN /\ angle_deg' = Some(raw)
       /\ smoothed' = Some(s)
       /\ clock' = clock + 1
       /\ sample' = Some(AngleSample(s, clock + 1, source))
       /\ ppc' = "store"

\* One loop iteration up to the construction of the sample: the raw value
\* is smoothed with the alpha read under its lock, clamped to [0, 1].
Produce(raw) ==
    LET a == Clamp(alpha, 0, One)
        s == Ema(smoothed, a, raw)
    IN /\ angle_deg' = Some(raw)
       /\ smoothed' = Some(s)
       /\ clock' = clock + 1
       /\ sample' = Some(AngleSample(s, clock + 1, source))
       /\ ppc' = "store"

MockTickUpTo(angle, n) ==
    /\ source = "Mock" /\ ppc = "wait" /\ clock < n
    /\ Produce(angle)
    /\ UNCHANGED <<baseline, buf>>
    /\ UNCHANGED <<envVars, devVars, gateVars, streams>>

MockTick(angle) == MockTickUpTo(angle, MaxTicks)

\* raw -> slow baseline removal -> normalise to [0, 1] -> Produce
AlsTickUpTo(raw, n) ==
    /\ source = "ALS" /\ ppc = "wait" /\ clock < n
    /\ LET b == (995 * baseline + 5 * raw) \div One
           val == Clamp((raw - b) * 3 + 500, 0, One)
       IN /\ baseline' = b
          /\ Produce(val)
    /\ UNCHANGED buf
    /\ UNCHANGED <<envVars, devVars, gateVars, streams>>

AlsTick(raw) == AlsTickUpTo(raw, MaxTicks)

\* The retry loop at the head of the HID task: it leaves the loop only once
\* a hinge device has been opened.
HidConnect ==
    /\ source = "HingeFeature" /\ ppc = "connect" /\ hidPresent
    /\ ppc' = "wait"
    /\ UNCHANGED <<angle_deg, smoothed, baseline, buf, sample, clock>>
    /\ UNCHANGED <<envVars, devVars, gateVars, streams>>

\* get_feature_report: Ok(raw) publishes, Err re-opens and sleeps 300 ms.
HidTick(ok, raw) ==
    /\ source = "HingeFeature" /\ ppc = "wait" /\ clock < MaxTicks
    /\ IF ok
       THEN Produce(raw)
       ELSE /\ ppc' = "sleep"
            /\ UNCHANGED <<angle_deg, smoothed, sample, clock>>
    /\ UNCHANGED <<baseline, buf>>
    /\ UNCHANGED <<envVars, devVars, gateVars, streams>>

HidWake ==
    /\ ppc = "sleep"
    /\ ppc' = "wait"
    /\ UNCHANGED <<angle_deg, smoothed, baseline, buf, sample, clock>>
    /\ UNCHANGED <<envVars, devVars, gateVars, streams>>

\* Faulty variant: the cell is only filled while it is empty.
StoreLatestOnce ==
    /\ ppc = "store"
    /\ latest' = IF latest = None THEN sample ELSE latest
    /\ ppc' = "send"
    /\ UNCHANGED <<alpha, conf, chan, senders, published>>
    /\ UNCHANGED <<angle_deg, smoothed, baseline, buf, sample, clock>>
    /\ UNCHANGED <<envVars, gateVars, streams>>

\* *latest_c.lock().unwrap() = Some(sample);
StoreLatest ==
    /\ ppc = "store"
    /\ latest' = sample
    /\ ppc' = "send"
    /\ UNCHANGED <<alpha, conf, chan, senders, published>>
    /\ UNCHANGED <<angle_deg, smoothed, baseline, buf, sample, clock>>
    /\ UNCHANGED <<envVars, gateVars, streams>>

\* Faulty variant: a single-slot (watch-like) channel, an unread value is replaced.
SendCoalescing(ch, x) ==
    IF RxCount = 0 THEN ch
    ELSE IF ch # << >> /\ \E i \in Subs : streams[i].st = "open" /\ streams[i].next < Len(ch)
         THEN [ch EXCEPT ![Len(ch)] = x]
         ELSE Append(ch, x)

\* Faulty variant: a bounded queue, a value is refused while some receiver has
\* Capacity unread values.
SendBounded(ch, x) ==
    IF RxCount = 0 THEN ch
    ELSE IF \E i \in Subs : streams[i].st = "open" /\ Len(ch) - streams[i].next >= Capacity
         THEN ch
         ELSE Append(ch, x)

\* What tx.send does to the channel: with no receiver the value is handed
\* back in the error (which the task ignores), otherwise it is appended.
Send(ch, x) == IF RxCount = 0 THEN ch ELSE Append(ch, x)

\* let _ = tx_c.send(sample);
Broadcast ==
    /\ ppc = "send"
    /\ chan' = Send(chan, sample[1])
    /\ published' = Append(published, sample[1])
    /\ ppc' = IF source = "ALS" THEN "conf" ELSE "wait"
    /\ sample' = IF source = "ALS" THEN sample ELSE None
    /\ UNCHANGED <<latest, alpha, conf, senders>>
    /\ UNCHANGED <<angle_deg, smoothed, baseline, buf, clock>>
    /\ UNCHANGED <<envVars, gateVars, streams>>

\* Rolling window update, then *conf_c.lock().unwrap() = stability.clamp(0, 1)
\* for the stability the estimator derives from the new window.
AlsConfWith(stability) ==
    /\ ppc = "conf"
    /\ buf' = Push(buf, sample[1].angle_deg)
    /\ conf' = Clamp(stability, 0, One)
    /\ ppc' = "wait"
    /\ sample' = None
    /\ UNCHANGED <<latest, alpha, chan, senders, published>>
    /\ UNCHANGED <<angle_deg, smoothed, baseline, clock>>
    /\ UNCHANGED <<envVars, gateVars, streams>>

AlsConf == AlsConfWith(Stability(Push(buf, sample[1].angle_deg)))

\* ------------------------------------------------- the inner AngleDevice
\* Faulty variant: every backend reports a conf cell, which only the ALS
\* producer updates.
ConfidenceCell == conf

\* fn confidence(&self): the conf cell for AlsAngle, the constant 1.0 for
\* MockAngle and HidAngle.
Confidence == IF source = "ALS" THEN conf ELSE One

\* fn latest(&self) of the backend: a copy of the latest cell.
InnerLatest == latest

\* fn info(&self) of the backends that define it.
InfoOf ==
    [HingeFeature |-> [source |-> "HingeFeature", note |-> "mac_hid_feature"],
     ALS |-> [source |-> "ALS", note |-> "mac_als"]]

HandleAlive == "dev" \in senders

\* ------------------------------------------------------ gating::Gated
\* Gated::latest, first step: bump() reads the inner confidence.
LatestConfUpTo(c, n) ==
    /\ HandleAlive /\ cpc[c] = "idle" /\ calls < n
    /\ calls' = calls + 1
    /\ creg' = [creg EXCEPT ![c].c = Confidence]
    /\ cpc' = [cpc EXCEPT ![c] = "load"]
    /\ UNCHANGED <<live, ret, ops>>
    /\ UNCHANGED <<envVars, devVars, taskVars, streams>>

LatestConf(c) == LatestConfUpTo(c, MaxCalls)

\* Faulty variant: the two thresholds swapped in the go-live test.
BumpStoreLow(cv, l) ==
    IF ~l /\ cv >= DropConf THEN Some(TRUE)
    ELSE IF l /\ cv < DropConf THEN Some(FALSE)
    ELSE None

\* Faulty variant: a band twice as wide, the gate drops below min_confidence - 0.10.
BumpStoreWideBand(cv, l) ==
    IF ~l /\ cv >= MinConf THEN Some(TRUE)
    ELSE IF l /\ cv < MinConf - 100 THEN Some(FALSE)
    ELSE None

\* Faulty variant: no hysteresis band, the gate drops below the go-live threshold.
BumpStoreNoBand(cv, l) ==
    IF ~l /\ cv >= MinConf THEN Some(TRUE)
    ELSE IF l /\ cv < MinConf THEN Some(FALSE)
    ELSE None

\* The branch bump() takes for confidence cv and loaded flag l: the value
\* it stores into live, or None when it stores nothing.
BumpStore(cv, l) ==
    IF ~l /\ cv >= MinConf THEN Some(TRUE)
    ELSE IF l /\ cv < DropConf THEN Some(FALSE)
    ELSE None

\* bump(): let live = self.live.load(Relaxed) and the choice of branch.
LatestLoad(c) ==
    /\ cpc[c] = "load"
    /\ creg' = [creg EXCEPT ![c].l = live]
    /\ cpc' = [cpc EXCEPT ![c] =
                 IF BumpStore(creg[c].c, live) = None THEN "check" ELSE "store"]
    /\ UNCHANGED <<live, ret, calls, ops>>
    /\ UNCHANGED <<envVars, devVars, taskVars, streams>>

\* bump(): self.live.store(..., Relaxed)
LatestStore(c) ==
    /\ cpc[c] = "store"
    /\ live' = BumpStore(creg[c].c, creg[c].l)[1]
    /\ cpc' = [cpc EXCEPT ![c] = "check"]
    /\ UNCHANGED <<creg, ret, calls, ops>>
    /\ UNCHANGED <<envVars, devVars, taskVars, streams>>

\* Faulty variant: latest() ignores the flag.
GateOpenAlways(l) == TRUE

\* What latest() does after reading the flag l: TRUE goes on to
\* self.inner.latest(), FALSE returns None at once.
GateOpen(l) == l

\* Gated::latest: if self.live.load(Relaxed) { ... } else { None }
LatestCheck(c) ==
    /\ cpc[c] = "check"
    /\ IF GateOpen(live)
       THEN /\ cpc' = [cpc EXCEPT ![c] = "read"]
            /\ creg' = [creg EXCEPT ![c].l = live]
            /\ ret' = ret
       ELSE /\ cpc' = [cpc EXCEPT ![c] = "idle"]
            /\ creg' = [creg EXCEPT ![c] = NoLocals]
            /\ ret' = [ret EXCEPT ![c] = <<"latest", None>>]
    /\ UNCHANGED <<live, calls, ops>>
    /\ UNCHANGED <<envVars, devVars, taskVars, streams>>

\* Gated::latest: self.inner.latest()
LatestRead(c) ==
    /\ cpc[c] = "read"
    /\ ret' = [ret EXCEPT ![c] = <<"latest", InnerLatest>>]
    /\ cpc' = [cpc EXCEPT ![c] = "idle"]
    /\ creg' = [creg EXCEPT ![c] = NoLocals]
    /\ UNCHANGED <<live, calls, ops>>
    /\ UNCHANGED <<envVars, devVars, taskVars, streams>>

\* Faulty variant: confidence() re-evaluates the gate as latest() does.
ConfidenceCallBumping(c) ==
    /\ HandleAlive /\ cpc[c] = "idle" /\ ops < MaxOps
    /\ ops' = ops + 1
    /\ live' = IF BumpStore(Confidence, live) = None
               THEN live ELSE BumpStore(Confidence, live)[1]
    /\ UNCHANGED <<cpc, creg, ret, calls>>
    /\ UNCHANGED <<envVars, devVars, taskVars, streams>>

\* Gated::confidence -> self.inner.confidence()
ConfidenceCall(c) ==
    /\ HandleAlive /\ cpc[c] = "idle" /\ ops < MaxOps
    /\ ops' = ops + 1
    /\ UNCHANGED <<live, cpc, creg, ret, calls>>
    /\ UNCHANGED <<envVars, devVars, taskVars, streams>>

\* Gated::info -> self.inner.info()
InfoCall(c) ==
    /\ HandleAlive /\ cpc[c] = "idle" /\ ops < MaxOps
    /\ source \in DOMAIN InfoOf
    /\ ops' = ops + 1
    /\ UNCHANGED <<live, cpc, creg, ret, calls>>
    /\ UNCHANGED <<envVars, devVars, taskVars, streams>>

\* Gated::set_smoothing -> *self.alpha.lock().unwrap() = alpha
SetSmoothing(c, a) ==
    /\ HandleAlive /\ cpc[c] = "idle" /\ ops < MaxOps
    /\ ops' = ops + 1
    /\ alpha' = a
    /\ UNCHANGED <<latest, conf, chan, senders, published>>
    /\ UNCHANGED <<live, cpc, creg, ret, calls>>
    /\ UNCHANGED <<envVars, taskVars, streams>>

\* ---------------------------------------------------- subscriber streams
\* Position of the oldest value the ring still retains.
Oldest == IF Len(chan) > Capacity THEN Len(chan) - Capacity ELSE 0

\* Faulty variant: a new receiver starts at the oldest retained value.
SubscribeAtOldest == Oldest

\* tx.subscribe(): the position a new receiver starts reading at.
SubscribeAt == Len(chan)

FreeSlots == {i \in DOMAIN streams : streams[i].st = "free"}

\* Gated::subscribe -> BroadcastStream::new(self.tx.subscribe())
Subscribe(c) ==
    /\ HandleAlive /\ cpc[c] = "idle"
    /\ FreeSlots # {}
    /\ LET i == CHOOSE j \in FreeSlots : \A k \in FreeSlots : j <= k
       IN streams' = [streams EXCEPT ![i] =
                 [st |-> "open", next |-> SubscribeAt, got |-> << >>,
                  lost |-> 0, from |-> Len(published)]]
    /\ UNCHANGED <<live, cpc, creg, ret, calls, ops>>
    /\ UNCHANGED <<envVars, devVars, taskVars>>

\* Where a receiver that has fallen behind resumes: Err(Lagged(n)) moves it
\* to the oldest retained value.
LagResume == Oldest

\* Faulty variant: the stream stops at the first error (map_while instead of
\* filter_map).
RecvLaggedEnds(i) ==
    /\ streams[i].st = "open"
    /\ streams[i].next < Oldest
    /\ streams' = [streams EXCEPT ![i].st = "ended"]
    /\ UNCHANGED <<envVars, devVars, taskVars, gateVars>>

\* A poll of BroadcastStream + filter_map(it.ok()) by a receiver whose next
\* value has been overwritten: Err(Lagged(n)), which filter_map drops.
RecvLagged(i) ==
    /\ streams[i].st = "open"
    /\ streams[i].next < Oldest
    /\ streams' = [streams EXCEPT
                     ![i].next = LagResume,
                     ![i].lost = streams[i].lost + (LagResume - streams[i].next)]
    /\ UNCHANGED <<envVars, devVars, taskVars, gateVars>>

\* Faulty variant: the gate also filters the stream.
RecvItemGated(i) ==
    /\ live
    /\ streams[i].st = "open"
    /\ streams[i].next >= Oldest /\ streams[i].next < Len(chan)
    /\ streams' = [streams EXCEPT
                     ![i].next = streams[i].next + 1,
                     ![i].got = Append(streams[i].got, chan[streams[i].next + 1])]
    /\ UNCHANGED <<envVars, devVars, taskVars, gateVars>>

\* A poll that yields Ok(sample): the receiver's next value.
RecvItem(i) ==
    /\ streams[i].st = "open"
    /\ streams[i].next >= Oldest /\ streams[i].next < Len(chan)
    /\ streams' = [streams EXCEPT
                     ![i].next = streams[i].next + 1,
                     ![i].got = Append(streams[i].got, chan[streams[i].next + 1])]
    /\ UNCHANGED <<envVars, devVars, taskVars, gateVars>>

\* Faulty variant: a poll that finds nothing to read ends the stream.
RecvClosedWhenEmpty(i) ==
    /\ streams[i].st = "open"
    /\ streams[i].next = Len(chan)
    /\ streams' = [streams EXCEPT ![i].st = "ended"]
    /\ UNCHANGED <<envVars, devVars, taskVars, gateVars>>

\* A poll when every Sender is gone and nothing is left to read:
\* Err(Closed) ends the BroadcastStream.
RecvClosed(i) ==
    /\ streams[i].st = "open"
    /\ streams[i].next = Len(chan) /\ senders = {}
    /\ streams' = [streams EXCEPT ![i].st = "ended"]
    /\ UNCHANGED <<envVars, devVars, taskVars, gateVars>>

\* The subscriber drops its stream.
DropStream(i) ==
    /\ streams[i].st \in {"open", "ended"}
    /\ streams' = [streams EXCEPT ![i].st = "dropped"]
    /\ UNCHANGED <<envVars, devVars, taskVars, gateVars>>

\* --------------------------------------------------------------- teardown
\* The caller drops the AngleClient: its Sender goes, the spawned task is
\* detached and keeps its own clone.
DropDevice ==
    /\ HandleAlive
    /\ \A c \in Callers : cpc[c] = "idle"
    /\ senders' = senders \ {"dev"}
    /\ UNCHANGED <<latest, alpha, conf, chan, published>>
    /\ UNCHANGED <<envVars, taskVars, gateVars, streams>>

\* The Tokio runtime shuts down: the task is cancelled at an await point
\* and its Sender clone is dropped.
RuntimeShutdown ==
    /\ ppc \in {"wait", "connect", "sleep"}
    /\ ppc' = "dead"
    /\ senders' = senders \ {"task"}
    /\ UNCHANGED <<latest, alpha, conf, chan, published>>
    /\ UNCHANGED <<angle_deg, smoothed, baseline, buf, sample, clock>>
    /\ UNCHANGED <<envVars, gateVars, streams>>

\* ---------------------------------------------------------- specification
Producer ==
    \/ \E a \in MockAngles : MockTick(a)
    \/ \E r \in AlsRaws : AlsTick(r)
    \/ HidConnect
    \/ \E ok \in BOOLEAN, r \in HidAngles : HidTick(ok, r)
    \/ HidWake
    \/ StoreLatest
    \/ Broadcast
    \/ AlsConf

Poll(c) ==
    \/ LatestConf(c)
    \/ LatestLoad(c)
    \/ LatestStore(c)
    \/ LatestCheck(c)
    \/ LatestRead(c)

Other(c) ==
    \/ ConfidenceCall(c)
    \/ InfoCall(c)
    \/ \E a \in AlphaVals : SetSmoothing(c, a)
    \/ Subscribe(c)

Teardown ==
    \/ \E i \in Subs : DropStream(i)
    \/ DropDevice
    \/ RuntimeShutdown

\* The device with one polling caller and its subscribers.  With at most
\* MaxTicks sends the ring never overflows and no Sender is released, so a
\* stream poll here is always RecvItem.
Next ==
    \/ Producer
    \/ Poll("c1")
    \/ Subscribe("c1")
    \/ \E i \in Subs : RecvItem(i)

Spec == Init /\ [][Next]_vars

\* Every operation of the gated device from one caller thread.
NextFrame ==
    \/ Producer
    \/ Poll("c1")
    \/ Other("c1")

SpecFrame == Init /\ [][NextFrame]_vars

\* The gate polled by concurrent callers while the producer runs.
NextGate ==
    \/ Producer
    \/ \E c \in Callers : Poll(c)

SpecGate == Init /\ [][NextGate]_vars

\* The hub: the producer, subscribers and teardown.
NextHub ==
    \/ Producer
    \/ Subscribe("c1")
    \/ \E i \in Subs : RecvItem(i)
    \/ \E i \in Subs : RecvClosed(i)
    \/ Teardown

SpecHub == Init /\ [][NextHub]_vars

\* The same, with the producer task scheduled by the runtime and every
\* subscriber polling its stream.
SpecHubFair ==
    /\ Init
    /\ [][NextHub]_vars
    /\ WF_vars(Producer)
    /\ \A i \in Subs : WF_vars(RecvItem(i))

\* ------------------------------------------------ a lagging subscriber
\* Two streams are subscribed before the first tick of a Mock device.
\* Stream 1 keeps up: it has drained the channel before each timer tick.
\* Stream 2 does not keep up: it polls, if at all, only once Capacity
\* samples have been sent.
InitLag ==
    /\ source = "Mock"
    /\ hidPresent = FALSE
    /\ Settled("Mock", One)
    /\ NoRecord
    /\ latest = None
    /\ alpha = One
    /\ conf = ConfInit
    /\ chan = << >>
    /\ senders = {"dev", "task"}
    /\ ppc = "wait"
    /\ angle_deg = None
    /\ smoothed = None
    /\ baseline = BaselineInit
    /\ buf = << >>
    /\ sample = None
    /\ clock = 0
    /\ live = FALSE
    /\ cpc = [c \in Callers |-> "idle"]
    /\ creg = [c \in Callers |-> NoLocals]
    /\ ret = [c \in Callers |-> <<"unset">>]
    /\ calls = 0
    /\ ops = 0
    /\ streams = [i \in Subs |->
                    [st |-> "open", next |-> 0, got |-> << >>, lost |-> 0,
                     from |-> 0]]
    /\ published = << >>

LagTick ==
    /\ streams[1].st = "open" => streams[1].next = Len(chan)
    /\ MockTickUpTo(LagAngle, LagTicks)

SlowItem ==
    /\ Len(chan) >= Capacity
    /\ RecvItem(2)

NextLag ==
    \/ LagTick
    \/ StoreLatest
    \/ Broadcast
    \/ RecvItem(1)
    \/ SlowItem
    \/ RecvLagged(2)
    \/ \E i \in Subs : RecvClosed(i)
    \/ DropDevice
    \/ RuntimeShutdown

SpecLag == InitLag /\ [][NextLag]_vars

\* --------------------------------------- the gate on a confidence script
\* An ALS device whose estimator reports Script[k] as its k-th confidence
\* (Script[1] is the value the conf cell is created with), polled by one
\* caller once per value; after the last value the caller keeps polling.
Script == <<200, 500, 750, 600, 640, 300>>

InitScript ==
    /\ Init
    /\ source = "ALS"

ScriptTick ==
    \E r \in AlsRaws : AlsTickUpTo(r, Len(Script) - 1)

\* The tick's confidence update, once the current value has been polled.
ScriptConf ==
    /\ calls = Len(buf) + 1 /\ cpc["c1"] = "idle"
    /\ AlsConfWith(Script[Len(buf) + 2])

ScriptPoll ==
    /\ \/ calls = Len(buf)
       \/ Len(buf) = Len(Script) - 1
    /\ LatestConfUpTo("c1", ScriptPolls)

NextScript ==
    \/ ScriptTick
    \/ StoreLatest
    \/ Broadcast
    \/ ScriptConf
    \/ ScriptPoll
    \/ LatestLoad("c1")
    \/ LatestStore("c1")
    \/ LatestCheck("c1")
    \/ LatestRead("c1")

SpecScript == InitScript /\ [][NextScript]_vars

\* ------------------------------------------- a caller that keeps polling
\* A Mock device was chosen; one caller polls latest() again and again
\* while the producer runs.  The task is scheduled by the runtime and the
\* caller's loop keeps running: a step of either that stays possible is
\* eventually taken.
InitLive ==
    /\ Init
    /\ source = "Mock"

\* Gated::latest entered once more: bump() reads the inner confidence.
PollStart(c) ==
    /\ HandleAlive /\ cpc[c] = "idle"
    /\ creg' = [creg EXCEPT ![c].c = Confidence]
    /\ cpc' = [cpc EXCEPT ![c] = "load"]
    /\ UNCHANGED <<live, ret, calls, ops>>
    /\ UNCHANGED <<envVars, devVars, taskVars, streams>>

PollLive ==
    \/ PollStart("c1")
    \/ LatestLoad("c1")
    \/ LatestStore("c1")
    \/ LatestCheck("c1")
    \/ LatestRead("c1")

MockProducer ==
    \/ \E a \in MockAngles : MockTick(a)
    \/ StoreLatest
    \/ Broadcast

NextLive ==
    \/ MockProducer
    \/ PollLive

SpecLive ==
    InitLive /\ [][NextLive]_vars /\ WF_vars(MockProducer) /\ WF_vars(PollLive)

\* -------------------------------------------- the confidence window
\* An ALS device run past a full window.  The raw signal is free for the
\* first WindowFree ticks and steady afterwards; with alpha = 0 the filter
\* feeds the window one value, with alpha = 1 the normalised signal, which
\* keeps moving while the baseline follows the raw level.
WindowAlphas == {0, One}
SteadyRaw == 450

InitWindow ==
    /\ source = "ALS"
    /\ hidPresent = FALSE
    /\ alpha \in WindowAlphas
    /\ Settled("ALS", alpha)
    /\ NoRecord
    /\ latest = None
    /\ conf = ConfInit
    /\ chan = << >>
    /\ senders = {"dev", "task"}
    /\ ppc = "wait"
    /\ angle_deg = None
    /\ smoothed = None
    /\ baseline = BaselineInit
    /\ buf = << >>
    /\ sample = None
    /\ clock = 0
    /\ live = FALSE
    /\ cpc = [c \in Callers |-> "idle"]
    /\ creg = [c \in Callers |-> NoLocals]
    /\ ret = [c \in Callers |-> <<"unset">>]
    /\ calls = 0
    /\ ops = 0
    /\ streams = [i \in Subs |-> StreamFree]
    /\ published = << >>

WindowTick ==
    \E r \in AlsRaws :
        /\ clock >= WindowFree => r = SteadyRaw
        /\ AlsTickUpTo(r, WindowTicks)

NextWindow ==
    \/ WindowTick
    \/ StoreLatest
    \/ Broadcast
    \/ AlsConf

SpecWindow == InitWindow /\ [][NextWindow]_vars

\* ------------------------------------------------- the Mock waveform
\* The Mock source is deterministic: t starts at 0 and grows by 0.04 before
\* each sample, angle = 95 + 20 sin t + 0.5 sin 3.7t.  Wave[k] is the angle
\* of tick k in thousandths of a degree.
Wave ==
    <<
       95874, 96744, 97609, 98465, 99311, 100142, 100957, 101754,
       102531, 103286, 104018, 104725, 105407, 106062, 106691, 107293,
       107869, 108418, 108940, 109437, 109910, 110358, 110782, 111184,
       111564, 111924, 112262, 112581, 112880, 113159, 113420, 113660,
       113882, 114083, 114263, 114421, 114556, 114668, 114754, 114814,
       114845, 114847, 114818, 114757, 114661, 114530, 114363, 114159,
       113916, 113635, 113315, 112956, 112559, 112123, 111650, 111140,
       110595, 110017, 109408, 108768, 108102, 107411, 106697, 105964,
       105213, 104448, 103672, 102886, 102094, 101297, 100499, 99701,
       98905, 98112, 97325, 96544, 95771, 95005, 94248, 93500,
       92762, 92032, 91311, 90600, 89896, 89201, 88513, 87832,
       87159, 86492, 85832, 85178, 84532, 83893, 83261, 82639,
       82026, 81424, 80834, 80258, 79698, 79155, 78632, 78130,
       77652, 77200, 76777, 76384, 76023, 75697, 75408, 75156,
       74944, 74773, 74643, 74555, 74511, 74509, 74550, 74633,
       74758, 74924, 75129, 75371, 75650, 75964, 76309, 76686,
       77090, 77521, 77976, 78453, 78950, 79465, 79997, 80543,
       81103, 81675, 82259, 82852, 83456, 84068, 84690, 85321,
       85961, 86610, 87269, 87938, 88618, 89308, 90009, 90722,
       91447, 92183, 92932, 93692, 94463, 95244, 96035, 96834,
       97641, 98453, 99269, 100087 >>

\* 2 pi / 0.04: the ticks of one period of the 20-degree component.
WavePeriod == 157

\* set_smoothing(1.0) and set_smoothing(0.05) of the jitter test, and two
\* more settings below and between them.
JitterAlphas == {0, 50, 250, One}

\* The first n angles of the waveform.
WaveRun(n) == SubSeq(Wave, 1, n)

\* The filter applied sample by sample to xs[lo..hi], entered with the
\* estimate prev: the outputs in order.  The second half is entered with
\* the estimate the first half ends on.
RECURSIVE EmaRun(_, _, _, _, _)
EmaRun(prev, a, xs, lo, hi) ==
    IF lo > hi THEN << >>
    ELSE IF lo = hi THEN <<Ema(prev, a, xs[lo])>>
    ELSE LET mid == (lo + hi) \div 2
             left == EmaRun(prev, a, xs, lo, mid)
         IN left \o EmaRun(Some(Last(left)), a, xs, mid + 1, hi)

\* The stream a Mock device with smoothing a publishes in its first n ticks.
Smoothed(a, n) == EmaRun(None, a, Wave, 1, n)

\* The angles of a sequence of samples.
Angles(ss) == [k \in 1..Len(ss) |-> ss[k].angle_deg]

\* The CAP values of xs that end at n.
WindowAt(xs, n) == SubSeq(xs, n - CAP + 1, n)

\* vals.iter().sum() over xs[lo..hi]
RECURSIVE SumOver(_, _, _)
SumOver(xs, lo, hi) ==
    IF lo > hi THEN 0
    ELSE IF lo = hi THEN xs[lo]
    ELSE LET mid == (lo + hi) \div 2
         IN SumOver(xs, lo, mid) + SumOver(xs, mid + 1, hi)

\* variance_over of the jitter test, on hundredths of a degree.
VarianceOver(xs) ==
    LET n == Len(xs)
        cs == [k \in 1..n |-> xs[k] \div 10]
        m == SumOver(cs, 1, n) \div n
        ds == [k \in 1..n |-> (cs[k] - m) * (cs[k] - m)]
    IN SumOver(ds, 1, n) \div n

\* A Mock device whose smoothing was set before its first tick.
InitJitter ==
    /\ source = "Mock"
    /\ hidPresent = FALSE
    /\ alpha \in JitterAlphas
    /\ Settled("Mock", AlphaInit)
    /\ NoRecord
    /\ latest = None
    /\ conf = ConfInit
    /\ chan = << >>
    /\ senders = {"dev", "task"}
    /\ ppc = "wait"
    /\ angle_deg = None
    /\ smoothed = None
    /\ baseline = BaselineInit
    /\ buf = << >>
    /\ sample = None
    /\ clock = 0
    /\ live = FALSE
    /\ cpc = [c \in Callers |-> "idle"]
    /\ creg = [c \in Callers |-> NoLocals]
    /\ ret = [c \in Callers |-> <<"unset">>]
    /\ calls = 0
    /\ ops = 0
    /\ streams = [i \in Subs |-> StreamFree]
    /\ published = << >>

\* One tick of the Mock loop on its own waveform.
JitterTick == clock < JitterTicks /\ MockTickUpTo(Wave[clock + 1], JitterTicks)

NextJitter ==
    \/ JitterTick
    \/ StoreLatest
    \/ Broadcast

SpecJitter == InitJitter /\ [][NextJitter]_vars

\* ------------------------------------------- the cells and their mutexes
\* The steps above take a `*cell.lock().unwrap()` statement as one step.
\* Here the same statements are taken apart: the lock is acquired in one
\* step; the access is made, and the MutexGuard temporary dropped at the
\* end of the statement, in the next.  The device is an AlsAngle, which has
\* all three cells.
Threads == {"task"} \cup Callers
LockAlphas == {-500, 1500}                       \* set_smoothing arguments

\* Faulty variant: the guard is bound to a variable that lives on.
DropKept(h, l) == h

\* The MutexGuard is a temporary: dropped at the end of its statement.
Drop(h, l) == [h EXCEPT ![l] = "none"]

Held(t) == {l \in Locks : holder[l] = t}

\* The cell whose mutex the statement thread t is at locks.
WantsTask ==
    IF ppc = "wait" /\ rawNow # None THEN "alpha"
    ELSE IF ppc = "store" THEN "latest"
    ELSE IF ppc = "conf" THEN "conf"
    ELSE "none"

WantsCaller(c) ==
    IF cpc[c] \in {"bump", "confidence"} THEN "conf"
    ELSE IF cpc[c] = "set_smoothing" THEN "alpha"
    ELSE IF cpc[c] = "read" THEN "latest"
    ELSE "none"

Wants(t) == IF t = "task" THEN WantsTask ELSE WantsCaller(t)

lockedOther == <<settledVars, streams>>

\* Mutex::lock: returns once no other thread holds the mutex.
Lock(t) ==
    /\ Wants(t) # "none"
    /\ holder[Wants(t)] = "none"
    /\ holder' = [holder EXCEPT ![Wants(t)] = t]
    /\ UNCHANGED <<rawNow, devVars, taskVars, gateVars, lockedOther>>

\* interval.tick().await and the raw signal of this tick.
TaskRead ==
    \E r \in AlsRaws :
        /\ ppc = "wait" /\ rawNow = None /\ clock < LockTicks
        /\ rawNow' = Some(r)
        /\ UNCHANGED <<holder, devVars, taskVars, gateVars, lockedOther>>

\* baseline, normalisation, and
\* let a = (*alpha_c.lock().unwrap()).clamp(0.0, 1.0); .. smoothed = Some(s)
TaskSmooth ==
    /\ ppc = "wait" /\ rawNow # None /\ holder["alpha"] = "task"
    /\ LET b == (995 * baseline + 5 * rawNow[1]) \div One
           val == Clamp((rawNow[1] - b) * 3 + 500, 0, One)
       IN /\ baseline' = b
          /\ Produce(val)
    /\ rawNow' = None
    /\ holder' = Drop(holder, "alpha")
    /\ UNCHANGED <<buf, devVars, gateVars, lockedOther>>

\* *latest_c.lock().unwrap() = Some(sample);
TaskStore ==
    /\ ppc = "store" /\ holder["latest"] = "task"
    /\ latest' = sample
    /\ ppc' = "send"
    /\ holder' = Drop(holder, "latest")
    /\ UNCHANGED <<rawNow, alpha, conf, chan, senders, published>>
    /\ UNCHANGED <<angle_deg, smoothed, baseline, buf, sample, clock>>
    /\ UNCHANGED <<gateVars, lockedOther>>

\* let _ = tx_c.send(sample);
TaskSend ==
    /\ ppc = "send"
    /\ chan' = Send(chan, sample[1])
    /\ published' = Append(published, sample[1])
    /\ ppc' = "conf"
    /\ UNCHANGED <<holder, rawNow, latest, alpha, conf, senders>>
    /\ UNCHANGED <<angle_deg, smoothed, baseline, buf, sample, clock>>
    /\ UNCHANGED <<gateVars, lockedOther>>

\* *conf_c.lock().unwrap() = stability.clamp(0.0, 1.0);
TaskConf ==
    /\ ppc = "conf" /\ holder["conf"] = "task"
    /\ buf' = Push(buf, sample[1].angle_deg)
    /\ conf' = Clamp(Stability(Push(buf, sample[1].angle_deg)), 0, One)
    /\ ppc' = "wait"
    /\ sample' = None
    /\ holder' = Drop(holder, "conf")
    /\ UNCHANGED <<rawNow, latest, alpha, chan, senders, published>>
    /\ UNCHANGED <<angle_deg, smoothed, baseline, clock>>
    /\ UNCHANGED <<gateVars, lockedOther>>

TaskStep ==
    \/ Lock("task")
    \/ TaskRead
    \/ TaskSmooth
    \/ TaskStore
    \/ TaskSend
    \/ TaskConf

\* The caller operations started so far.
Started == calls + ops + Cardinality(Subs \ FreeSlots)

\* A caller enters Gated::latest, Gated::confidence or Gated::set_smoothing.
CallLatest(c) ==
    /\ cpc[c] = "idle" /\ Started < LockOps
    /\ calls' = calls + 1
    /\ cpc' = [cpc EXCEPT ![c] = "bump"]
    /\ UNCHANGED <<live, creg, ret, ops>>
    /\ UNCHANGED <<holder, rawNow, devVars, taskVars, lockedOther>>

CallConfidence(c) ==
    /\ cpc[c] = "idle" /\ Started < LockOps
    /\ ops' = ops + 1
    /\ cpc' = [cpc EXCEPT ![c] = "confidence"]
    /\ UNCHANGED <<live, creg, ret, calls>>
    /\ UNCHANGED <<holder, rawNow, devVars, taskVars, lockedOther>>

CallSetSmoothing(c, a) ==
    /\ cpc[c] = "idle" /\ Started < LockOps
    /\ ops' = ops + 1
    /\ cpc' = [cpc EXCEPT ![c] = "set_smoothing"]
    /\ creg' = [creg EXCEPT ![c].c = a]
    /\ UNCHANGED <<live, ret, calls>>
    /\ UNCHANGED <<holder, rawNow, devVars, taskVars, lockedOther>>

\* bump(): let c = self.inner.confidence();  -> *self.conf.lock().unwrap()
BumpConf(c) ==
    /\ cpc[c] = "bump" /\ holder["conf"] = c
    /\ creg' = [creg EXCEPT ![c].c = Confidence]
    /\ cpc' = [cpc EXCEPT ![c] = "load"]
    /\ holder' = Drop(holder, "conf")
    /\ UNCHANGED <<live, ret, calls, ops>>
    /\ UNCHANGED <<rawNow, devVars, taskVars, lockedOther>>

\* self.inner.latest() -> *self.latest.lock().unwrap()
ReadLatest(c) ==
    /\ cpc[c] = "read" /\ holder["latest"] = c
    /\ ret' = [ret EXCEPT ![c] = <<"latest", InnerLatest>>]
    /\ cpc' = [cpc EXCEPT ![c] = "idle"]
    /\ creg' = [creg EXCEPT ![c] = NoLocals]
    /\ holder' = Drop(holder, "latest")
    /\ UNCHANGED <<live, calls, ops>>
    /\ UNCHANGED <<rawNow, devVars, taskVars, lockedOther>>

\* self.inner.confidence() -> *self.conf.lock().unwrap()
ReadConf(c) ==
    /\ cpc[c] = "confidence" /\ holder["conf"] = c
    /\ ret' = [ret EXCEPT ![c] = <<"confidence", Confidence>>]
    /\ cpc' = [cpc EXCEPT ![c] = "idle"]
    /\ holder' = Drop(holder, "conf")
    /\ UNCHANGED <<live, creg, calls, ops>>
    /\ UNCHANGED <<rawNow, devVars, taskVars, lockedOther>>

\* self.inner.set_smoothing(alpha) -> *self.alpha.lock().unwrap() = alpha
StoreAlpha(c) ==
    /\ cpc[c] = "set_smoothing" /\ holder["alpha"] = c
    /\ alpha' = creg[c].c
    /\ cpc' = [cpc EXCEPT ![c] = "idle"]
    /\ creg' = [creg EXCEPT ![c] = NoLocals]
    /\ holder' = Drop(holder, "alpha")
    /\ UNCHANGED <<live, ret, calls, ops>>
    /\ UNCHANGED <<rawNow, latest, conf, chan, senders, published>>
    /\ UNCHANGED <<taskVars, lockedOther>>

CallSubscribe(c) ==
    /\ Started < LockOps
    /\ Subscribe(c)

CallerStep(c) ==
    \/ CallLatest(c)
    \/ CallConfidence(c)
    \/ \E a \in LockAlphas : CallSetSmoothing(c, a)
    \/ CallSubscribe(c)
    \/ Lock(c)
    \/ BumpConf(c)
    \/ LatestLoad(c)
    \/ LatestStore(c)
    \/ LatestCheck(c)
    \/ ReadLatest(c)
    \/ ReadConf(c)
    \/ StoreAlpha(c)

InitLocks ==
    /\ Init
    /\ source = "ALS"
    /\ alpha = AlphaInit
    /\ hidPresent = FALSE

NextLocks ==
    \/ TaskStep
    \/ \E c \in Callers : CallerStep(c)

SpecLocks == InitLocks /\ [][NextLocks]_vars

\* ------------------------------------------------------------ persist.rs
\* state.json holds one PersistedState as JSON text.  A text is the
\* sequence of its tokens, each token a sequence of strings.
PersistTags == {"ALS", "Mock"}

\* PersistedState::default()
DefaultState == [last_source |-> None]

PersistedStates ==
    {DefaultState} \cup {[last_source |-> Some(t)] : t \in PersistTags}

\* serde_json::to_string_pretty(st)
ToJson(st) ==
    << <<"{">>, <<"last_source">>,
       IF st.last_source = None THEN <<"null">>
                                ELSE <<"str", st.last_source[1]>>,
       <<"}">> >>

\* serde_json::from_str::<PersistedState>(&s): None is a parse error.  A
\* missing Option field deserializes as None, an unknown variant name is
\* an error.
FromJson(text) ==
    IF text = << <<"{">>, <<"}">> >> THEN Some(DefaultState)
    ELSE IF /\ Len(text) = 4
            /\ text[1] = <<"{">>
            /\ text[2] = <<"last_source">>
            /\ text[4] = <<"}">>
         THEN IF text[3] = <<"null">> THEN Some(DefaultState)
              ELSE IF /\ Len(text[3]) = 2
                      /\ text[3][1] = "str"
                      /\ text[3][2] \in Sources
                   THEN Some([last_source |-> Some(text[3][2])])
                   ELSE None
         ELSE None

\* Result::unwrap_or_default
UnwrapOrDefault(o) == IF o = None THEN DefaultState ELSE o[1]

Truncated == << >>
Garbage == << <<"garbage">> >>
UnknownVariant == << <<"{">>, <<"last_source">>, <<"str", "Bogus">>, <<"}">> >>

\* What state.json may hold when the first call is made.
Files ==
    {None} \cup {Some(ToJson(st)) : st \in PersistedStates}
           \cup {Some(Truncated), Some(Garbage), Some(UnknownVariant)}

\* One persist call: io is FALSE when a file-system call of it failed.
Call(op, arg, io, ok, val) ==
    [op |-> op, arg |-> arg, io |-> io, ok |-> ok, val |-> val]

persistOther ==
    <<features, guard, entry, cfg, avail, ipc, at, tried, opened, spawned,
      result, source, hidPresent, stateDir, diagnostics, stderrOk, holder, rawNow,
      devVars, taskVars, gateVars, streams>>

\* pub fn load() -> PersistedState
LoadReturn(readOk) ==
    IF ~stateDir THEN DefaultState
    ELSE IF file = None \/ ~readOk THEN DefaultState
    ELSE UnwrapOrDefault(FromJson(file[1]))

PersistLoad ==
    \E readOk \in BOOLEAN :
        /\ Len(plog) < MaxPersist
        /\ plog' = Append(plog, Call("load", DefaultState,
                                     readOk \/ ~stateDir \/ file = None,
                                     TRUE, LoadReturn(readOk)))
        /\ UNCHANGED <<file, persistOther>>

\* pub fn store(st: &PersistedState) -> Result<()>
\* A failed fs::write may already have created or truncated the file.
PersistStore ==
    \E st \in PersistedStates, dirOk \in BOOLEAN, writeOk \in BOOLEAN,
       cut \in BOOLEAN :
        /\ Len(plog) < MaxPersist
        /\ IF ~stateDir
           THEN /\ file' = file
                /\ plog' = Append(plog, Call("store", st, TRUE, TRUE, DefaultState))
           ELSE IF ~dirOk
           THEN /\ file' = file
                /\ plog' = Append(plog, Call("store", st, FALSE, FALSE, DefaultState))
           ELSE IF ~writeOk
           THEN /\ file' = IF cut THEN Some(Truncated) ELSE file
                /\ plog' = Append(plog, Call("store", st, FALSE, FALSE, DefaultState))
           ELSE /\ file' = Some(ToJson(st))
                /\ plog' = Append(plog, Call("store", st, TRUE, TRUE, DefaultState))
        /\ UNCHANGED persistOther

\* pub fn clear() -> Result<()>
PersistClear ==
    \E removeOk \in BOOLEAN :
        /\ Len(plog) < MaxPersist
        /\ IF ~stateDir \/ file = None
           THEN /\ file' = file
                /\ plog' = Append(plog, Call("clear", DefaultState, TRUE, TRUE, DefaultState))
           ELSE IF removeOk
           THEN /\ file' = None
                /\ plog' = Append(plog, Call("clear", DefaultState, TRUE, TRUE, DefaultState))
           ELSE /\ file' = file
                /\ plog' = Append(plog, Call("clear", DefaultState, FALSE, FALSE, DefaultState))
        /\ UNCHANGED persistOther

\* A Mock device is open; where the platform has no state directory there
\* is no state.json.
InitPersist ==
    /\ InitDevice
    /\ source = "Mock"
    /\ alpha = AlphaInit
    /\ hidPresent = FALSE
    /\ stateDir \in BOOLEAN
    /\ file \in Files
    /\ stateDir \/ file = None
    /\ plog = << >>

NextPersist ==
    \/ PersistLoad
    \/ PersistStore
    \/ PersistClear

SpecPersist == InitPersist /\ [][NextPersist]_vars

\* ------------------------------------------------------- init(), steps
\* What init leaves alone until a backend opens.
noDevice == <<source, latest, alpha, conf, chan, senders, published>>
buildVars == <<features, guard, entry, cfg, avail, hidPresent, stateDir, file, plog,
               diagnostics, stderrOk, holder, rawNow>>

Pending == [kind |-> "Pending"]

\* Error::Backend("no backends enabled; enable one of: ..")
NoBackendsErr ==
    [kind |-> "Err", variant |-> "Backend", msg |-> <<"no backends enabled">>]

\* Error::Backend(format!("no suitable backend available; tried: {tried:?}"))
ExhaustedErr(t) ==
    [kind |-> "Err", variant |-> "Backend",
     msg |-> <<"no suitable backend available; tried: ", t>>]

\* Faulty variant: the check for an empty build is missing.
HasBackendsAlways == TRUE

\* const HAS_BACKENDS
HasBackends == features # {}

\* Faulty variant: the desktop guard is not consulted.
PathUnguarded == Walk

\* The candidate blocks on the path init takes.
Path == IF guard THEN GuardWalk ELSE Walk

\* Faulty variant: the Mock block is entered whenever it is compiled in.
EligibleAlways(tag) == FeatureOf(tag) \in features

\* A block is compiled in under its cfg(feature); the Mock block is
\* further guarded by `if cfg.allow_mock`.
Eligible(tag) ==
    /\ FeatureOf(tag) \in features
    /\ tag = "Mock" => cfg.allow_mock

\* The first block after position p that init enters, or past the end.
NextFrom(p) ==
    LET qs == {q \in (p + 1)..Len(Path) : Eligible(Path[q])}
    IN IF qs = {} THEN Len(Path) + 1
       ELSE CHOOSE q \in qs : \A r \in qs : q <= r

\* The open of a backend: Ok or Err.
OpenResult(tag) == tag \notin Fallible \/ tag \in avail

\* Faulty variant: the task is spawned before the sensor lookup.
OpenSpawnsAlways(tag, ok) == TRUE

\* Whether an open reaches its tokio::spawn: every open looks its sensor up
\* first and returns Err from the lookup, so it spawns exactly when it
\* returns Ok.
OpenSpawns(tag, ok) == ok

\* Faulty variant: HidAngle::open_with awaits its connect loop.
OpenReturnsWhenFound(tag) ==
    FeatureOf(tag) = "mac_hid_feature" => hidPresent

\* Whether the open's future completes: no open awaits anything that can
\* pend forever (the HID connect loop runs inside the spawned task).
OpenReturns(tag) == TRUE

\* Faulty variant: the tag is inserted at the front.
TriedPushFront(t, tag) == <<tag>> \o t

\* tried.push(Source::X)
TriedPush(t, tag) == Append(t, tag)

\* What init starts from, whatever the diagnostics switch and stderr are.
InitCall ==
    /\ features \in Builds
    /\ guard \in BOOLEAN
    /\ entry \in [fn : Entries,
                  opts : [hz : HzVals, smoothing_init : SmoothingInits,
                          allow_mock : BOOLEAN]]
    /\ entry.fn \in {"open", "open_blocking"} => entry.opts = InitConfigNew(entry.opts.hz)
    /\ cfg = EntryConfig(entry.fn, entry.opts)
    /\ avail \in SUBSET {t \in Fallible : FeatureOf(t) \in features}
    /\ hidPresent \in BOOLEAN
    /\ stateDir \in BOOLEAN
    /\ file = None
    /\ plog = << >>
    /\ holder = [l \in Locks |-> "none"]
    /\ rawNow = None
    /\ ipc = "start"
    /\ at = 0
    /\ tried = << >>
    /\ opened = << >>
    /\ spawned = << >>
    /\ result = Pending
    /\ source = "none"
    /\ latest = None
    /\ alpha = AlphaInit
    /\ conf = ConfInit
    /\ chan = << >>
    /\ senders = {}
    /\ ppc = "none"
    /\ angle_deg = None
    /\ smoothed = None
    /\ baseline = BaselineInit
    /\ buf = << >>
    /\ sample = None
    /\ clock = 0
    /\ live = FALSE
    /\ cpc = [c \in Callers |-> "idle"]
    /\ creg = [c \in Callers |-> NoLocals]
    /\ ret = [c \in Callers |-> <<"unset">>]
    /\ calls = 0
    /\ ops = 0
    /\ streams = [i \in Subs |-> StreamFree]
    /\ published = << >>

\* BOOKLID_DIAGNOSTICS is not set.
InitArb ==
    /\ InitCall
    /\ diagnostics = FALSE
    /\ stderrOk = TRUE

\* if std::env::var("BOOKLID_DIAGNOSTICS").ok().as_deref() == Some("1")
\* { eprintln!(..) }: only the Ok branch of the desktop-guard path has it.
WritesDiagnostics == guard /\ diagnostics

\* eprintln! panics when the write to stderr fails.
DiagnosticsPanics == WritesDiagnostics /\ ~stderrOk

\* The panic message of eprintln!.
StderrPanic == [kind |-> "Panic", msg |-> <<"failed printing to stderr">>]

\* if !HAS_BACKENDS { return Err(..) }; let guard = desktop_guard();
\* control then reaches the first compiled-in block of its path.
InitEnter ==
    /\ ipc = "start"
    /\ IF ~HasBackends
       THEN /\ result' = NoBackendsErr
            /\ ipc' = "failed"
            /\ at' = at
       ELSE /\ ipc' = "walk"
            /\ at' = NextFrom(0)
            /\ result' = result
    /\ UNCHANGED <<tried, opened, spawned>>
    /\ UNCHANGED <<buildVars, noDevice, taskVars, gateVars, streams>>

\* tried.push(Source::X) at the head of a block.
InitPush ==
    /\ ipc = "walk" /\ at <= Len(Path)
    /\ tried' = TriedPush(tried, Path[at])
    /\ ipc' = "open"
    /\ UNCHANGED <<at, opened, spawned, result>>
    /\ UNCHANGED <<buildVars, noDevice, taskVars, gateVars, streams>>

\* if let Ok(dev) = X::open(cfg.hz).await { set_smoothing; Gated::wrap;
\* return Ok((dev, report)) }
InitOpenOk ==
    /\ ipc = "open" /\ OpenReturns(Path[at]) /\ OpenResult(Path[at])
    /\ ~DiagnosticsPanics
    /\ opened' = Append(opened, Path[at])
    /\ spawned' = IF OpenSpawns(Path[at], TRUE)
                  THEN Append(spawned, Path[at]) ELSE spawned
    /\ source' = Path[at]
    /\ alpha' = cfg.smoothing_init
    /\ senders' = {"dev", "task"}
    /\ ppc' = IF FeatureOf(Path[at]) = "mac_hid_feature" THEN "connect" ELSE "wait"
    /\ result' = Report(Path[at], tried, guard)
    /\ ipc' = "done"
    /\ UNCHANGED <<at, tried, buildVars>>
    /\ UNCHANGED <<latest, conf, chan, published>>
    /\ UNCHANGED <<angle_deg, smoothed, baseline, buf, sample, clock>>
    /\ UNCHANGED <<gateVars, streams>>

\* The open returned Err: control falls through to the next block.
InitOpenErr ==
    /\ ipc = "open" /\ OpenReturns(Path[at]) /\ ~OpenResult(Path[at])
    /\ opened' = Append(opened, Path[at])
    /\ spawned' = IF OpenSpawns(Path[at], FALSE)
                  THEN Append(spawned, Path[at]) ELSE spawned
    /\ at' = NextFrom(at)
    /\ ipc' = "walk"
    /\ UNCHANGED <<tried, result>>
    /\ UNCHANGED <<buildVars, noDevice, taskVars, gateVars, streams>>

\* Past the last block: Err(Error::Backend(msg)).
InitExhausted ==
    /\ ipc = "walk" /\ at > Len(Path)
    /\ result' = ExhaustedErr(tried)
    /\ ipc' = "failed"
    /\ UNCHANGED <<at, tried, opened, spawned>>
    /\ UNCHANGED <<buildVars, noDevice, taskVars, gateVars, streams>>

NextArb ==
    \/ InitEnter
    \/ InitPush
    \/ InitOpenOk
    \/ InitOpenErr
    \/ InitExhausted

SpecArb == InitArb /\ [][NextArb]_vars

\* init is a future its caller awaits (or block_on drives): a step that is
\* ready is eventually taken.
SpecArbFair == InitArb /\ [][NextArb]_vars /\ WF_vars(NextArb)

\* ------------------------------------------------- init(), diagnostics
\* The open returned Ok, set_smoothing and Gated::wrap were called, and
\* eprintln! panics: init unwinds, dropping dev and report; the task
\* that the open spawned keeps running with its own Sender.
InitDiagnosticsPanic ==
    /\ ipc = "open" /\ OpenReturns(Path[at]) /\ OpenResult(Path[at])
    /\ DiagnosticsPanics
    /\ opened' = Append(opened, Path[at])
    /\ spawned' = IF OpenSpawns(Path[at], TRUE)
                  THEN Append(spawned, Path[at]) ELSE spawned
    /\ source' = Path[at]
    /\ alpha' = cfg.smoothing_init
    /\ senders' = {"task"}
    /\ ppc' = "wait"
    /\ result' = StderrPanic
    /\ ipc' = "panicked"
    /\ UNCHANGED <<at, tried, buildVars>>
    /\ UNCHANGED <<latest, conf, chan, published>>
    /\ UNCHANGED <<angle_deg, smoothed, baseline, buf, sample, clock>>
    /\ UNCHANGED <<gateVars, streams>>

\* init called with the switch set or not, stderr writable or not.
InitDiag ==
    /\ InitCall
    /\ diagnostics \in BOOLEAN
    /\ stderrOk \in BOOLEAN

NextDiag ==
    \/ NextArb
    \/ InitDiagnosticsPanic

SpecDiag == InitDiag /\ [][NextDiag]_vars

\* ================================================================ claims
Band(cv) == cv >= DropConf /\ cv < MinConf

\* C1: the gate starts Dormant; a gated latest() call whose bump finds the
\* gate Dormant stores Live exactly when the confidence it read is
\* >= min_confidence, and nothing else makes the gate Live; a call that finds
\* the gate Dormant after its bump returns None, a call that finds it Live
\* returns the inner device's latest().
C1_Call(c) ==
    /\ (cpc[c] = "load" /\ cpc'[c] # "load" /\ ~live)
          => ((cpc'[c] = "store") <=> (creg[c].c >= MinConf))
    /\ (cpc[c] = "store" /\ cpc'[c] = "check" /\ ~creg[c].l)
          => (live' /\ creg[c].c >= MinConf)
    /\ (cpc[c] = "check" /\ cpc'[c] = "idle")
          => (~live /\ ret'[c] = <<"latest", None>>)
    /\ (cpc[c] = "check" /\ cpc'[c] = "read") => live
    /\ (cpc[c] = "read" /\ cpc'[c] = "idle")
          => ret'[c] = <<"latest", InnerLatest>>

C1_GateGoesLive ==
    /\ ~live
    /\ [][/\ (~live /\ live') =>
               \E c \in Callers : /\ cpc[c] = "store" /\ cpc'[c] = "check"
                                  /\ creg[c].c >= MinConf
          /\ \A c \in Callers : C1_Call(c)]_vars

C1_Witness ==
    \E c \in Callers :
        /\ source = "ALS" /\ live /\ cpc[c] = "idle"
        /\ latest # None /\ ret[c] = <<"latest", latest>>

\* C2: drop_threshold = clamp(min_confidence - 0.05, 0, 1); the gate leaves
\* Live only by a latest() call that read a confidence < drop_threshold, and
\* a call that read a confidence in [drop_threshold, min_confidence) stores
\* nothing, whatever the gate's state.
C2_Hysteresis ==
    /\ DropConf = Clamp(MinConf - 50, 0, One)
    /\ [][/\ (live /\ ~live') =>
               \E c \in Callers : /\ cpc[c] = "store" /\ cpc'[c] = "check"
                                  /\ creg[c].l /\ creg[c].c < DropConf
          /\ \A c \in Callers :
               (cpc[c] = "load" /\ cpc'[c] # "load" /\ Band(creg[c].c))
                  => (cpc'[c] = "check" /\ live' = live)]_vars

C2_Witness ==
    \E c \in Callers :
        /\ cpc[c] = "check" /\ Band(creg[c].c) /\ creg[c].l /\ live

\* C3 as stated: polled once per value of [0.2, 0.5, 0.75, 0.60, 0.64, 0.3]
\* with thresholds 0.70 / 0.65, the gate is Live exactly after polls 3, 4
\* and 5: poll k returns None for k = 1, 2 and k >= 6, a sample for k = 3..5.
PollOutcome(liveAfter) ==
    (cpc["c1"] = "idle" /\ calls >= 1) =>
        /\ live = liveAfter
        /\ ret["c1"][1] = "latest"
        /\ (ret["c1"][2] = None) = ~liveAfter

C3_AsStated == PollOutcome(calls \in 3..5)

\* C3, amended: 0.60 is already below the drop threshold 0.65, so the gate
\* is Live exactly after poll 3 and Dormant again from poll 4 on: poll k
\* returns a sample for k = 3 and None for every other k.
C3_Sequence == PollOutcome(calls = 3)

C3_Witness ==
    /\ cpc["c1"] = "idle" /\ calls = ScriptPolls /\ Len(buf) = Len(Script) - 1
    /\ ~live /\ ret["c1"] = <<"latest", None>>

Attached(i) == streams[i].st \in {"open", "ended"}

\* C4: subscribe() is not filtered by the gate: whatever the gate's state,
\* and also when latest() was never called, every sample sent since a
\* subscription has been delivered to the stream, in order, or is waiting in
\* the channel where the stream's next poll takes it.
C4_StreamUngated ==
    \A i \in Subs : streams[i].st = "open" =>
        LET r == streams[i] IN
        /\ r.lost = 0
        /\ r.got = SubSeq(published, r.from + 1, r.from + Len(r.got))
        /\ Len(published) - r.from = Len(r.got) + (Len(chan) - r.next)
        /\ r.next < Len(chan) => ENABLED RecvItem(i)

C4_Witness ==
    \E i \in Subs : /\ streams[i].got # << >> /\ ~live /\ calls = 0

\* C5: the Live/Dormant flag changes only in the store step of a gated
\* latest() call - never in a producer step, confidence(), subscribe(),
\* set_smoothing() or info() - and no step of a gated latest() call changes
\* the inner latest sample, confidence, alpha or the broadcast stream.
C5_Frame ==
    [][/\ (live' # live) =>
            \E c \in Callers : cpc[c] = "store" /\ cpc'[c] = "check"
       /\ (cpc' # cpc) =>
            UNCHANGED <<latest, conf, alpha, chan, senders, published, streams>>
      ]_vars

C5_Witness ==
    /\ live /\ ops = MaxOps /\ published # << >>
    /\ streams[1].st = "open" /\ calls >= 1

\* C6: the inner latest() is none until the producer's first store, and
\* afterwards it is the sample of the most recent store.
Stored == IF ppc = "send" THEN Append(published, sample[1]) ELSE published

C6_LastWriteWins ==
    InnerLatest = IF Stored = << >> THEN None ELSE Some(Last(Stored))

C6_Witness ==
    /\ Len(published) >= 2 /\ ppc = "wait"
    /\ InnerLatest = Some(Last(published))

\* C7: a stream subscribed before any publication holds exactly the first
\* samples published, in publication order, each once, with none skipped;
\* once it has drained the channel it holds every sample published.  This
\* holds for both streams when both subscribed before any publication.
C7_EverySampleInOrder ==
    \A i \in Subs : (Attached(i) /\ streams[i].from = 0) =>
        LET r == streams[i] IN
        /\ r.lost = 0 /\ r.next = Len(r.got)
        /\ r.got = SubSeq(published, 1, Len(r.got))
        /\ r.next = Len(chan) => r.got = published

C7_Witness ==
    /\ \A i \in Subs : /\ streams[i].st = "ended" /\ streams[i].from = 0
                       /\ streams[i].got = published
    /\ Len(published) >= 2

\* C8: a stream created after N samples were published never holds one of
\* those N; what it receives first is the first sample sent after its
\* subscribe().
C8_NoReplay ==
    \A i \in Subs : Attached(i) =>
        LET r == streams[i] IN
        /\ \A k \in 1..Len(r.got) : \A n \in 1..r.from : r.got[k] # published[n]
        /\ r.got # << >> => r.got[1] = published[r.from + 1]

C8_Witness ==
    \E i \in Subs : streams[i].from >= 1 /\ Len(streams[i].got) >= 1

\* C9: a stream that falls more than Capacity behind loses its own oldest
\* unread samples and nothing else: the lag step moves it to the oldest
\* retained value and touches no other stream; its samples stay in order;
\* the producer's store and send steps are enabled whatever the backlog;
\* and a stream that never lagged has every sample, in order.
Ordered(g) == \A k \in 1..(Len(g) - 1) : g[k].timestamp < g[k + 1].timestamp

C9_Streams ==
    \A i \in Subs : Attached(i) =>
        LET r == streams[i] IN
        /\ Ordered(r.got)
        /\ r.next = Len(r.got) + r.lost
        /\ \A k \in 1..Len(r.got) : \E d \in 0..r.lost : r.got[k] = chan[k + d]
        /\ r.lost = 0 => r.got = SubSeq(published, 1, Len(r.got))
        /\ (r.lost = 0 /\ r.next = Len(chan)) => r.got = published

C9_LagStep ==
    \A i \in Subs : streams'[i].lost # streams[i].lost =>
        /\ streams'[i].next = Len(chan) - Capacity
        /\ streams'[i].lost - streams[i].lost = streams'[i].next - streams[i].next
        /\ streams'[i].got = streams[i].got
        /\ \A j \in Subs \ {i} : streams'[j] = streams[j]
        /\ UNCHANGED <<chan, published, ppc>>

C9_SlowSubscriber ==
    /\ [](C9_Streams /\ (ppc = "store" => ENABLED StoreLatest)
                     /\ (ppc = "send" => ENABLED Broadcast))
    /\ [][C9_LagStep]_vars

C9_Witness ==
    /\ streams[2].lost > 0 /\ streams[2].got # << >>
    /\ Len(published) > Capacity /\ streams[1].got = published

\* C10: lagging is item loss, not an error that ends the stream: a stream
\* ends only when every Sender is gone and it has read all that was sent,
\* and a stream that lagged is then at the last sample sent.
C10_LagNotTerminal ==
    \A i \in Subs :
        LET r == streams[i] IN
        /\ r.st = "ended" => (senders = {} /\ r.next = Len(chan))
        /\ (r.st = "ended" /\ r.lost > 0) =>
              (r.got # << >> /\ Last(r.got) = Last(published))
        /\ (r.st = "open" /\ r.lost > 0 /\ r.next < Len(chan)) =>
              (ENABLED RecvItem(i) \/ ENABLED RecvLagged(i))

C10_Witness ==
    /\ streams[2].st = "ended" /\ streams[2].lost > 0
    /\ Last(streams[2].got) = Last(published)

\* C11: dropping the device handle stops the backend's producer: once the
\* handle is gone no further sample is handed to the channel.
C11_DropStopsProducer ==
    [][~HandleAlive => published' = published]_vars

IsPrefix(a, b) == Len(a) <= Len(b) /\ a = SubSeq(b, 1, Len(a))

\* C12: tried lists the candidates whose open was attempted, in attempt
\* order, whatever the outcome, up to and including the first success; on
\* success chosen is the last element of tried and the backend that was
\* opened, and used_mock is true exactly when chosen is Mock.
C12_TriedRecordsAttempts ==
    /\ IsPrefix(opened, tried)
    /\ Len(tried) = Len(opened) + (IF ipc = "open" THEN 1 ELSE 0)
    /\ \A k \in 1..Len(opened) :
          OpenResult(opened[k]) <=> (k = Len(opened) /\ ipc = "done")
    /\ result.kind = "Ok" =>
          /\ ipc = "done" /\ result.tried = opened /\ opened # << >>
          /\ result.chosen = Some(Last(result.tried))
          /\ result.chosen = Some(source)
          /\ result.used_mock <=> (result.chosen = Some("Mock"))

C12_Witness ==
    /\ result.kind = "Ok" /\ Len(result.tried) >= 2
    /\ ~OpenResult(result.tried[1])

Range(q) == {q[k] : k \in 1..Len(q)}

\* C13: Mock is opt-in: when allow_mock is false Mock is never opened, never
\* in tried and never chosen, on every path and whatever the other
\* candidates do.
C13_MockOptIn ==
    ~cfg.allow_mock =>
        /\ "Mock" \notin Range(opened)
        /\ "Mock" \notin Range(tried)
        /\ source # "Mock"
        /\ result.kind = "Ok" =>
              (result.chosen # Some("Mock") /\ ~result.used_mock)

C13_Witness ==
    /\ ~cfg.allow_mock /\ "mock" \in features /\ ~guard
    /\ ipc = "failed" /\ tried # << >>

\* C14: Mock is the last candidate: whenever Mock is attempted, every other
\* compiled-in source has already been attempted and has failed.
C14_MockLast ==
    "Mock" \in Range(tried) =>
        \A t \in Range(Walk) \ {"Mock"} :
            FeatureOf(t) \in features =>
                (t \in Range(opened) /\ ~OpenResult(t))

\* C15: with at least one backend compiled in, the only failure init
\* returns is Error::NoBackend { tried } carrying the ordered list of the
\* candidates attempted.
C15_NoBackendError ==
    (ipc = "failed" /\ HasBackends) =>
        result = [kind |-> "Err", variant |-> "NoBackend", tried |-> tried]

\* C16: a build with no backend compiled in fails at once, before any
\* candidate is pushed or opened, and what it returns differs from what a
\* build with backends returns when its candidates are exhausted.
C16_NoBackendsDistinct ==
    /\ features = {} =>
          /\ ipc \in {"start", "failed"}
          /\ tried = << >> /\ opened = << >> /\ source = "none"
          /\ ipc = "failed" =>
                /\ result.kind = "Err"
                /\ result.msg[1] # ExhaustedErr(tried).msg[1]
    /\ (features # {} /\ ipc = "failed") =>
          /\ result.kind = "Err"
          /\ result.msg[1] # NoBackendsErr.msg[1]

C16_Witness ==
    features = {} /\ ipc = "failed" /\ result = NoBackendsErr

\* The candidates of this build in the order init walks them.
Candidates ==
    LET pick(t) == Eligible(t) IN SelectSeq(Path, pick)

\* The ordering rule the claims C17 and C18 state: drop the disabled tags,
\* move the persisted tag to the front, then move each preferred tag to the
\* front, last preference first.
MoveFront(q, tag) ==
    LET other(x) == x # tag
    IN IF tag \in Range(q) THEN <<tag>> \o SelectSeq(q, other) ELSE q

RECURSIVE MovePreferred(_, _)
MovePreferred(q, prefer) ==
    IF prefer = << >> THEN q
    ELSE MoveFront(MovePreferred(q, Tail(prefer)), Head(prefer))

Arrange(c, w) ==
    LET enabled(x) == x \notin w.disable
        kept == SelectSeq(c, enabled)
        pers == IF w.persisted = None THEN kept ELSE MoveFront(kept, w.persisted[1])
    IN MovePreferred(pers, w.prefer)

\* [A, B, C] with disable_sources = {B}, prefer_sources = [C], persisted A.
Example(c) == [disable |-> {c[2]}, prefer |-> <<c[3]>>, persisted |-> Some(c[1])]

\* C17: for the first three candidates [A, B, C] of a build, with B
\* disabled, C preferred and A persisted, the attempt order is [C, A]: what
\* init has tried is always a prefix of the arranged order.
C17_PreferenceOrder ==
    Len(Candidates) >= 3 =>
        /\ Arrange(SubSeq(Candidates, 1, 3), Example(Candidates))
              = <<Candidates[3], Candidates[1]>>
        /\ IsPrefix(tried, Arrange(Candidates, Example(Candidates)))

\* Two disable_sources sets for a build: its first candidate, and all of
\* its candidates.
Disabled == {{Candidates[1]}, Range(Candidates)}

\* C18: a source listed in disable_sources is never in tried and never
\* chosen; with every candidate disabled tried stays empty.
C18_DisabledNeverTried ==
    Candidates # << >> =>
        \A d \in Disabled :
            /\ Range(tried) \cap d = {}
            /\ source \notin d

\* C19: an invalid configuration (here a rate that is not positive) is
\* rejected before any candidate is attempted: tried stays empty, no
\* backend is opened, no producer task is spawned and init does not
\* return a device.
C19_InvalidConfigRejected ==
    cfg.hz <= 0 =>
        /\ tried = << >> /\ opened = << >>
        /\ ppc = "none"
        /\ result.kind # "Ok"

\* The raw source behind a candidate can be brought up: a hinge HID device
\* answers, or the sensor lookup of a fallible open succeeds.
RawUp(tag) ==
    IF FeatureOf(tag) = "mac_hid_feature" THEN hidPresent ELSE OpenResult(tag)

\* C20: a candidate whose raw source cannot be brought up is recorded in
\* tried once, is not retried, and is passed over: it is never the backend
\* init returns, and init's error is never that candidate's own failure.
C20_FailedCandidateSkipped ==
    /\ \A i, j \in 1..Len(tried) : tried[i] = tried[j] => i = j
    /\ \A k \in 1..Len(opened) :
          ~RawUp(opened[k]) => (opened[k] \in Range(tried) /\ source # opened[k])
    /\ result.kind = "Err" => result \in {NoBackendsErr, ExhaustedErr(tried)}

\* C21: one raw source per session: after init returned a device exactly
\* one producer task was spawned, that of the chosen source; after init
\* failed none was; and no candidate that was opened and passed over ever
\* spawned one.
C21_OneProducer ==
    /\ Len(spawned) <= 1
    /\ \A k \in 1..Len(opened) :
          (k < Len(opened) \/ ipc # "done") => opened[k] \notin Range(spawned)
    /\ ipc = "done" => (spawned = <<source>> /\ ppc # "none")
    /\ ipc # "done" => (spawned = << >> /\ ppc = "none")

C21_Witness ==
    /\ ipc = "done" /\ Len(opened) >= 2 /\ spawned = <<Last(opened)>>

\* C22: arbitration runs to completion: whatever the build, the
\* configuration and the raw sources, init eventually returns a device with
\* its report or an error.
C22_InitReturns ==
    <>(ipc \in {"done", "failed"} /\ result.kind \in {"Ok", "Err"})

C22_Witness ==
    /\ ipc = "done" /\ result.kind = "Ok"
    /\ source = "HingeFeature" /\ ~hidPresent

\* Values a caller may configure as min_confidence.
MinConfidences == {MinConf - 200, MinConf}

\* C23: on every success path the device init returns has the configured
\* smoothing alpha applied and is wrapped in a Dormant gate whose go-live
\* threshold is the configured min_confidence and whose drop threshold is
\* min_confidence - 0.05.
C23_ConfiguredGate ==
    result.kind = "Ok" =>
        /\ alpha = cfg.smoothing_init
        /\ ~live
        /\ \A m \in MinConfidences :
              result.gate = [min |-> m, drop |-> Clamp(m - 50, 0, One)]

\* C24: arbitration reads the persisted last-successful source at most
\* once, and a successful selection writes it exactly once, with the
\* chosen tag.
Loads(log) == SelectSeq(log, LAMBDA e : e.op = "load")
Stores(log) == SelectSeq(log, LAMBDA e : e.op = "store")

C24_PersistLifecycle ==
    /\ Len(Loads(plog)) <= 1
    /\ result.kind = "Ok" =>
          /\ Len(Stores(plog)) = 1
          /\ Stores(plog)[1].arg = [last_source |-> result.chosen]

\* C25: a store that returned Ok followed by a load whose read did not
\* fail yields the stored state; a clear that returned Ok followed by a
\* load yields the default, and a second clear is Ok; load always returns
\* a state.
C25_RoundTrip ==
    /\ \A k \in 1..Len(plog) : plog[k].op = "load" => plog[k].ok
    /\ \A k \in 1..(Len(plog) - 1) :
          /\ (plog[k].op = "store" /\ plog[k].ok /\ plog[k + 1].op = "load"
                /\ plog[k + 1].io)
                => plog[k + 1].val = plog[k].arg
          /\ (plog[k].op = "clear" /\ plog[k].ok /\ plog[k + 1].op = "load")
                => plog[k + 1].val = DefaultState
          /\ (plog[k].op = "clear" /\ plog[k].ok /\ plog[k + 1].op = "clear")
                => plog[k + 1].ok

\* What the entry point returns: `let (dev, _report) = init(..)?; Ok(dev)`.
OpenOutcome ==
    IF result.kind = "Ok" THEN [kind |-> "Ok", source |-> result.chosen]
                          ELSE [kind |-> "Err", source |-> None]

\* The async variant of an entry point.
AsyncOf(fn) ==
    CASE fn = "open_blocking" -> "open"
      [] fn = "open_blocking_with" -> "open_with"
      [] OTHER -> fn

\* What an awaited init(c) returns in this build with these raw sources:
\* the first block on the path, compiled in and entered under c, whose
\* open returns Ok.
AwaitedOutcome(c) ==
    LET qs == {q \in 1..Len(Path) :
                  /\ FeatureOf(Path[q]) \in features
                  /\ Path[q] = "Mock" => c.allow_mock
                  /\ OpenResult(Path[q])}
    IN IF features = {} \/ qs = {} THEN [kind |-> "Err", source |-> None]
       ELSE [kind |-> "Ok",
             source |-> Some(Path[CHOOSE q \in qs : \A r \in qs : q <= r])]

\* C26: whichever entry point was called, blocking or async, what it
\* returns (Ok or Err, and the chosen source) is what the async variant
\* returns for the same argument, build and raw sources.
C26_BlockingSameAsAsync ==
    ipc \in {"done", "failed"} =>
        OpenOutcome = AwaitedOutcome(EntryConfig(AsyncOf(entry.fn), entry.opts))

C26_Witness ==
    /\ ipc = "done"
    /\ entry.fn = "open_blocking_with"
    /\ entry.opts.allow_mock
    /\ source = "Mock"
    /\ OpenOutcome = [kind |-> "Ok", source |-> Some("Mock")]

\* C27: only the producer writes the latest cell, and while the producer
\* waits for its timer, reads the raw signal or sends on the broadcast
\* channel it holds none of the mutexes.
C27_NoLockAcrossSend ==
    /\ [](((ppc = "send") \/ (ppc = "wait" /\ rawNow = None)) => Held("task") = {})
    /\ [][latest' # latest => (holder["latest"] = "task" /\ ppc = "store")]_vars

C27_Witness ==
    /\ ppc = "send"
    /\ latest = sample
    /\ holder["latest"] \in Callers

\* C28: no thread holds a mutex other than the one of the statement it is
\* at; the producer in a tick and every caller inside a call can take a
\* step, or waits for a mutex whose holder can take a step.
Busy(t) ==
    IF t = "task" THEN ~(ppc = "wait" /\ rawNow = None) ELSE cpc[t] # "idle"

CanStep(t) ==
    IF t = "task" THEN ENABLED TaskStep
    ELSE \/ (t = "c1" /\ ENABLED CallerStep("c1"))
         \/ (t = "c2" /\ ENABLED CallerStep("c2"))

C28_NoDeadlock ==
    \A t \in Threads :
        /\ Held(t) \subseteq {Wants(t)}
        /\ Busy(t) =>
              \/ CanStep(t)
              \/ /\ Wants(t) # "none"
                 /\ holder[Wants(t)] \in Threads \ {t}
                 /\ CanStep(holder[Wants(t)])

C28_Witness ==
    /\ cpc["c1"] = "read" /\ holder["latest"] = "task"
    /\ cpc["c2"] = "set_smoothing" /\ holder["alpha"] = "c2"
    /\ ~ENABLED CallerStep("c1")

\* The step of the producer that smooths the value of one tick.
Smooths == ppc = "wait" /\ ppc' = "store"

\* C29: the first sample carries the first raw value unchanged; each later
\* one carries estimate + alpha * (raw - estimate) for the alpha in force;
\* with alpha = 0 the estimate stays where it was, with alpha = 1 it is the
\* raw value.
C29_Step ==
    Smooths =>
        LET x == angle_deg'[1]
            s == smoothed'[1]
            a == Clamp(alpha, 0, One)
        IN /\ sample'[1].angle_deg = s
           /\ smoothed = None => s = x
           /\ smoothed # None => s = smoothed[1] + (a * (x - smoothed[1])) \div One
           /\ (smoothed # None /\ alpha = 0) => s = smoothed[1]
           /\ alpha = One => s = x

C29_Smoothing == [][C29_Step]_vars

C29_Witness ==
    /\ source = "Mock" /\ clock = 2 /\ alpha = 0
    /\ Len(published) >= 1
    /\ smoothed[1] = published[1].angle_deg
    /\ angle_deg[1] # smoothed[1]

\* C30: set_smoothing stores its argument and changes nothing else of the
\* device; a tick smooths with the alpha stored at that time, a stored
\* value below 0 acting as 0 and one above 1 acting as 1.
C30_Set(c) ==
    (cpc[c] = "set_smoothing" /\ cpc'[c] = "idle") =>
        /\ alpha' = creg[c].c
        /\ UNCHANGED <<smoothed, sample, latest, conf, live, chan, published>>

C30_Tick ==
    Smooths =>
        LET x == angle_deg'[1]
            s == smoothed'[1]
        IN /\ (alpha >= 0 /\ alpha <= One /\ smoothed # None)
                 => s = smoothed[1] + (alpha * (x - smoothed[1])) \div One
           /\ (alpha < 0 /\ smoothed # None) => s = smoothed[1]
           /\ alpha > One => s = x

C30_SetSmoothing == [][C30_Tick /\ \A c \in Callers : C30_Set(c)]_vars

C30_Witness ==
    /\ clock = 2 /\ alpha = 1500 /\ ppc = "store"
    /\ smoothed = angle_deg
    /\ Len(published) >= 1
    /\ published[1].angle_deg # smoothed[1]

\* C31: the window never holds more than 64 values; an observation on a
\* full window evicts exactly the oldest value; the confidence is within
\* [0, 1]; a full window of one repeated value gives confidence 1.0.
C31_State ==
    /\ Len(buf) <= CAP
    /\ conf >= 0 /\ conf <= One
    /\ (Len(buf) = CAP /\ \A i \in 1..CAP : buf[i] = buf[1]) => conf = One

C31_Step ==
    (ppc = "conf" /\ ppc' = "wait") =>
        /\ Len(buf) < CAP => buf' = Append(buf, sample[1].angle_deg)
        /\ Len(buf) = CAP =>
              /\ Len(buf') = CAP
              /\ \A i \in 1..(CAP - 1) : buf'[i] = buf[i + 1]
              /\ buf'[CAP] = sample[1].angle_deg

C31_Window == [](C31_State) /\ [][C31_Step]_vars

C31_Witness ==
    /\ clock > CAP /\ ppc = "wait"
    /\ Len(buf) = CAP
    /\ \A i \in 1..CAP : buf[i] = buf[1]
    /\ conf = One

\* C32: on a Mock device whose producer is scheduled, a caller that keeps
\* polling latest() eventually gets Some.
C32_LatestBecomesSome ==
    <>(/\ Len(ret["c1"]) = 2
       /\ ret["c1"][1] = "latest"
       /\ ret["c1"][2] # None)

C32_Witness ==
    /\ source = "Mock" /\ live
    /\ cpc["c1"] = "idle"
    /\ clock >= 1
    /\ ret["c1"] = <<"latest", latest>>
    /\ latest # None

\* A tick of the producer is still to be broadcast.
TicksRemain == clock < MaxTicks \/ ppc \in {"store", "send"}

C34_AsStated ==
    (ppc = "wait" /\ Len(published) >= CAP) =>
        LET n == Len(published)
            out == Angles(published)
        IN /\ out = Smoothed(alpha, n)
           /\ \A b \in JitterAlphas :
                 alpha < b =>
                     VarianceOver(WindowAt(out, n))
                         <= VarianceOver(WindowAt(Smoothed(b, n), n))
           /\ (alpha = 50 /\ n >= WavePeriod) =>
                 100 * VarianceOver(out) < 95 * VarianceOver(WaveRun(n))

\* C34: over a run of the Mock waveform that covers a full period, the
\* published stream is the filter applied to the waveform, its variance
\* does not increase as alpha decreases, and with alpha = 0.05 it is below
\* 95% of the variance with alpha = 1.0, which is the waveform itself.
C34_JitterReduced ==
    (ppc = "wait" /\ Len(published) >= WavePeriod) =>
        LET n == Len(published)
            out == Angles(published)
        IN /\ out = Smoothed(alpha, n)
           /\ alpha = One => out = WaveRun(n)
           /\ \A b \in JitterAlphas :
                 alpha < b =>
                     VarianceOver(out) <= VarianceOver(Smoothed(b, n))
           /\ alpha = 50 =>
                 100 * VarianceOver(out) < 95 * VarianceOver(WaveRun(n))

C34_Witness ==
    /\ ppc = "wait" /\ alpha = 50
    /\ Len(published) >= WavePeriod
    /\ 100 * VarianceOver(Angles(published))
          < 95 * VarianceOver(WaveRun(Len(published)))
    /\ VarianceOver(Angles(published)) > 0

\* What init returns to its caller, a panic included.
InitOutcome ==
    IF result.kind = "Ok"
    THEN [kind |-> "Ok", source |-> result.chosen, tried |-> result.tried]
    ELSE IF result.kind = "Err"
    THEN [kind |-> "Err", source |-> None, tried |-> tried]
    ELSE [kind |-> result.kind, source |-> None, tried |-> << >>]

\* What init returns in this build with these raw sources while
\* BOOKLID_DIAGNOSTICS is not set: the blocks entered up to the first whose
\* open returns Ok.
RECURSIVE TriedUpTo(_, _)
TriedUpTo(p, c) ==
    IF p > Len(Path) THEN << >>
    ELSE IF ~(FeatureOf(Path[p]) \in features /\ (Path[p] = "Mock" => c.allow_mock))
    THEN TriedUpTo(p + 1, c)
    ELSE IF OpenResult(Path[p]) THEN <<Path[p]>>
    ELSE <<Path[p]>> \o TriedUpTo(p + 1, c)

QuietOutcome(c) ==
    LET o == AwaitedOutcome(c)
    IN [kind |-> o.kind, source |-> o.source,
        tried |-> IF features = {} THEN << >> ELSE TriedUpTo(1, c)]

\* C35: whether or not BOOKLID_DIAGNOSTICS is set, init returns what it
\* returns with the switch off for the same configuration, build and raw
\* sources: the same Ok or Err, chosen source and tried list.
C35_DiagnosticsAdvisory ==
    ipc \in {"done", "failed", "panicked"} => InitOutcome = QuietOutcome(cfg)

\* info().source of the device that was opened; MockAngle implements no
\* info.
InfoSource ==
    IF source \in DOMAIN InfoOf THEN Some(InfoOf[source].source) ELSE None

\* C36: for the device of a successful arbitration, info().source is
\* SetupReport.chosen for the whole session, and so is the source tag of
\* the sample in the latest cell and of every sample handed to the
\* subscribers.
C36_SourceIdentity ==
    result.kind = "Ok" =>
        /\ InfoSource = result.chosen
        /\ latest # None => Some(latest[1].source) = result.chosen
        /\ \A k \in 1..Len(published) : Some(published[k].source) = result.chosen
        /\ \A i \in Subs : \A k \in 1..Len(streams[i].got) :
              Some(streams[i].got[k].source) = result.chosen

\* C37: with the desktop guard set, init attempts ALS and nothing else:
\* tried, the opens called and the tasks spawned hold no tag but ALS, a
\* device that is returned is the ALS one, and a build without ALS fails
\* whatever allow_mock says.
C37_DesktopGuard ==
    guard =>
        /\ Len(tried) <= 1
        /\ \A k \in 1..Len(tried) : tried[k] = "ALS"
        /\ \A k \in 1..Len(opened) : opened[k] = "ALS"
        /\ \A k \in 1..Len(spawned) : spawned[k] = "ALS"
        /\ result.kind = "Ok" => result.chosen = Some("ALS") /\ result.tried = <<"ALS">>
        /\ (ipc \in {"done", "failed"} /\ "mac_als" \notin features) =>
              /\ result.kind = "Err"
              /\ tried = << >>
              /\ source = "none"

C37_Witness ==
    /\ guard
    /\ ipc = "failed"
    /\ cfg.allow_mock
    /\ features = {"mac_hid_feature", "mock"}
    /\ result = ExhaustedErr(<< >>)
    /\ opened = << >>

\* A gated latest() call of c has returned a sample.
ReturnedSome(c) ==
    Len(ret[c]) = 2 /\ ret[c][1] = "latest" /\ ret[c][2] # None

\* A gated latest() call of c is under way and the confidence its bump
\* read is at least min_confidence.
Observed(c) == cpc[c] # "idle" /\ creg[c].c >= MinConf

\* C38: however the latest() calls of the callers and the producer's
\* ticks interleave, a call hands out the inner sample only after it has
\* read the flag as set; no call returns a sample unless some latest()
\* call has read a confidence >= min_confidence, and none does while the
\* underlying confidence stays below min_confidence.
C38_GateUnderInterleaving ==
    /\ [][\A c \in Callers :
             (cpc[c] = "read" /\ cpc'[c] = "idle" /\ ret'[c][2] # None)
                => creg[c].l]_vars
    /\ [](\A c \in Callers : ~Observed(c))
          => [](\A c \in Callers : ~ReturnedSome(c))
    /\ [](Confidence < MinConf)
          => [](\A c \in Callers : ~ReturnedSome(c))

C38_Witness ==
    /\ source = "ALS"
    /\ cpc["c1"] = "read" /\ creg["c1"].l /\ creg["c1"].c < DropConf
    /\ cpc["c2"] = "check" /\ creg["c2"].c >= MinConf
    /\ latest # None

\* C39: a sample is in the latest cell before it is handed to the
\* channel: the cell holds a sample at least as late as every sample
\* published and every sample a subscriber has received, the cell never
\* goes back to an earlier sample or to none, and the samples of a stream
\* come with non-decreasing timestamps.
C39_Cell ==
    /\ \A k \in 1..Len(published) :
          latest # None /\ latest[1].timestamp >= published[k].timestamp
    /\ \A i \in Subs : \A k \in 1..Len(streams[i].got) :
          /\ latest # None /\ latest[1].timestamp >= streams[i].got[k].timestamp
          /\ k > 1 => streams[i].got[k - 1].timestamp <= streams[i].got[k].timestamp
    /\ ppc = "send" => latest = sample

C39_Step ==
    latest # None =>
        latest' # None /\ latest'[1].timestamp >= latest[1].timestamp

C39_PublishOrder == [](C39_Cell) /\ [][C39_Step]_vars

C39_Witness ==
    /\ Len(streams[1].got) >= 1
    /\ ppc = "send"
    /\ latest[1].timestamp > Last(streams[1].got).timestamp
    /\ \E c \in Callers :
          Len(ret[c]) = 2 /\ ret[c][1] = "latest" /\ ret[c][2] = latest

====
